---- MODULE Spec2Model ----
(***************************************************************************)
(* Model of the SOC dashboard module registry: backend/core/module_loader  *)
(* (ModuleLoader), backend/core/base_module (BaseModule) and the health    *)
(* aggregator of backend/api/health.  Coroutines are tasks; a task runs    *)
(* atomically from one await to the next, as under asyncio.                *)
(***************************************************************************)
EXTENDS Integers, Sequences, FiniteSets, TLC

\* ----------------------------------------------------------------- bounds
NTasks == 2
MaxCalls == 2
MaxRecordedCalls == 3
MaxModuleCalls == 3
MaxEntries == 2
MaxResultCalls == 2

\* Python's None, for an Optional[BaseModule]
None == 0

\* module directory names, and the entries of the modules directory
Names == {"alpha", "beta"}

\* object identities: an identity is unique among the live instances only,
\* and there are never more live instances than one registered per name and
\* two referred to by each call in flight or just returned
InstIds == 1 .. (Cardinality(Names) + 2 * (NTasks + 1))
Configs == {"cfg1", "cfg2"}
EmptyConfig == "{}"
\* config=None, the default of an Optional[Dict] argument
NoConfig == "None"

\* the configs argument of load_all_modules (a dict name -> config, possibly partial)
ConfigMaps == { [n \in {"alpha"} |-> "cfg1"] }

\* the config argument of reload_module and load_module
ReloadConfigs == {"cfg2", NoConfig}

\* ------------------------------------------------------- Python dict model
\* A dict is the sequence of its items in insertion order.
EmptyDict == << >>

DictKeys(d) == { d[j].k : j \in 1 .. Len(d) }

DictHas(d, key) == key \in DictKeys(d)

DictIndex(d, key) == CHOOSE j \in 1 .. Len(d) : d[j].k = key

\* d.get(key): the value, or None
DictGet(d, key) == IF DictHas(d, key) THEN d[DictIndex(d, key)].v ELSE None

\* d[key] = value: in place when the key exists, appended otherwise
DictSet(d, key, value) ==
    IF DictHas(d, key)
    THEN [d EXCEPT ![DictIndex(d, key)] = [k |-> key, v |-> value]]
    ELSE Append(d, [k |-> key, v |-> value])

\* del d[key]
DictDel(d, key) ==
    LET j == DictIndex(d, key)
    IN  SubSeq(d, 1, j - 1) \o SubSeq(d, j + 1, Len(d))

\* ------------------------------------------------------------ BaseModule
INITIALIZING == "initializing"
ACTIVE == "active"
INACTIVE == "inactive"
ERROR == "error"
ModuleStatus == {ACTIVE, INACTIVE, ERROR, INITIALIZING}

\* class name by the loader's convention: capitalized words + "Module"
ClassName(module_name) ==
    IF module_name = "alpha" THEN "AlphaModule"
    ELSE IF module_name = "beta" THEN "BetaModule"
    ELSE IF module_name = "virustotal" THEN "VirustotalModule"
    ELSE IF module_name = "thehive" THEN "ThehiveModule"
    ELSE IF module_name = "limacharlie" THEN "LimacharlieModule"
    ELSE IF module_name = "abuseipdb" THEN "AbuseipdbModule"
    ELSE IF module_name = "shodan" THEN "ShodanModule"
    ELSE IF module_name = "urlscan" THEN "UrlscanModule"
    ELSE "Module"

\* BaseModule.__init__ with the config left out of the instance
NewInstance_default_config(module_name, config) ==
    [ class |-> ClassName(module_name),
      config |-> EmptyConfig,
      status |-> INITIALIZING,
      initialized |-> FALSE,
      api |-> FALSE ]

\* BaseModule.__init__: config or {}, status INITIALIZING, _initialized False
\* (api: ThehiveModule's self.api holds a client; None after __init__)
NewInstance(module_name, config) ==
    [ class |-> ClassName(module_name),
      config |-> IF config \in {NoConfig, EmptyConfig} THEN EmptyConfig ELSE config,
      status |-> INITIALIZING,
      initialized |-> FALSE,
      api |-> FALSE ]

\* outcomes of the import / class lookup / constructor in load_module
LoadOutcomes == {"ok", "import_error", "no_class", "ctor_raises"}

\* no instance under this identity: never built, or freed when the last
\* reference to it went away
Collected == [class |-> "", config |-> "", status |-> "", initialized |-> FALSE, api |-> FALSE]

\* outcomes of `await module.initialize()`
InitOutcomes == {"true", "false", "raise"}

\* the effect of initialize() on the instance: Active and initialized on
\* success, Error on a reported failure; an initialize that raises left the
\* instance as it was
AfterInitialize(inst, outcome) ==
    IF outcome = "true" THEN [inst EXCEPT !.status = ACTIVE, !.initialized = TRUE]
    ELSE IF outcome = "false" THEN [inst EXCEPT !.status = ERROR]
    ELSE inst

VARIABLES
    modules_dir,       \* the modules directory on disk
    instances,         \* every module instance constructed so far (id = index)
    loaded_modules,    \* ModuleLoader.loaded_modules
    available_modules, \* ModuleLoader.available_modules
    inflight,          \* the calls suspended at an await, one frame each
    last,              \* the call that returned in the step just taken, if any
    budget,            \* the number of calls still to be made
    hist               \* what the calls made so far did, when it is recorded

vars ==
    << modules_dir, instances, loaded_modules, available_modules, inflight, last, budget, hist >>

\* ------------------------------------------------------------- discovery
\* directory entries whose name starts with the reserved prefix '_'
StartsWithUnderscore(entry_name) == entry_name \in {"__pycache__", "_disabled"}

\* Qualifies without the test of the reserved prefix
Qualifies_ignores_prefix(item) ==
    item.is_dir /\ item.has_module_py

\* line 47 and lines 49-50: a directory, not reserved, holding module.py
Qualifies(item) ==
    item.is_dir /\ ~StartsWithUnderscore(item.name) /\ item.has_module_py

\* ModuleLoader.discover_modules: the qualifying entries, in iterdir order
RECURSIVE DiscoverFrom(_, _)
DiscoverFrom(items, j) ==
    IF j > Len(items) THEN << >>
    ELSE IF Qualifies(items[j]) THEN << items[j].name >> \o DiscoverFrom(items, j + 1)
    ELSE DiscoverFrom(items, j + 1)

discover_modules ==
    IF ~modules_dir.exists THEN << >> ELSE DiscoverFrom(modules_dir.items, 1)

\* the directory the registry specification runs on
ModulesDir ==
    [ exists |-> TRUE,
      items |-> << [name |-> "alpha", is_dir |-> TRUE, has_module_py |-> TRUE],
                   [name |-> "__pycache__", is_dir |-> TRUE, has_module_py |-> FALSE],
                   [name |-> "beta", is_dir |-> TRUE, has_module_py |-> TRUE] >> ]

\* the names an entry of the modules directory can have
EntryNames == {"alpha", "beta", "_disabled", "__pycache__"}

\* an entry: a file, a directory without module.py, a directory with it
DirEntries ==
    { e \in [name : EntryNames, is_dir : BOOLEAN, has_module_py : BOOLEAN] :
        e.has_module_py => e.is_dir }

\* the modules directories: absent, or up to MaxEntries entries of different
\* names in the order iterdir gives them
Directories ==
    { [exists |-> FALSE, items |-> << >>] } \cup
    { [exists |-> TRUE, items |-> q] :
        q \in { q \in UNION { [1 .. k -> DirEntries] : k \in 0 .. MaxEntries } :
                  \A i, j \in DOMAIN q : i # j => q[i].name # q[j].name } }

\* ------------------------------------------------------------ the loader
NoClass == "<absent>"

\* the identity a newly constructed instance gets
FreshId(insts) ==
    CHOOSE id \in InstIds :
        /\ insts[id] = Collected
        /\ \A other \in InstIds : insts[other] = Collected => id <= other

\* the loader's state and the instances it built, as one value L
Loader ==
    [ instances |-> instances, loaded |-> loaded_modules, available |-> available_modules ]

\* load_module storing the class (line 86) before it constructs the instance
load_module_stores_class_first(L, module_name, config, outcome) ==
    IF outcome = "ok"
    THEN LET instance == FreshId(L.instances)
         IN  [ module |-> instance,
               L |-> [L EXCEPT !.instances[instance] = NewInstance(module_name, config),
                               !.available[module_name] = ClassName(module_name)] ]
    ELSE IF outcome = "ctor_raises"
    THEN [ module |-> None, L |-> [L EXCEPT !.available[module_name] = ClassName(module_name)] ]
    ELSE [ module |-> None, L |-> L ]

\* load_module without the store of line 86
load_module_forgets_class(L, module_name, config, outcome) ==
    IF outcome = "ok"
    THEN LET instance == FreshId(L.instances)
         IN  [ module |-> instance,
               L |-> [L EXCEPT !.instances[instance] = NewInstance(module_name, config)] ]
    ELSE [ module |-> None, L |-> L ]

\* load_module registering the instance it constructed
load_module_registers(L, module_name, config, outcome) ==
    IF outcome = "ok"
    THEN LET instance == FreshId(L.instances)
         IN  [ module |-> instance,
               L |-> [L EXCEPT !.instances[instance] = NewInstance(module_name, config),
                               !.available[module_name] = ClassName(module_name),
                               !.loaded = DictSet(@, module_name, instance)] ]
    ELSE [ module |-> None, L |-> L ]

\* ModuleLoader.load_module: the new instance (or None) and the state after
load_module(L, module_name, config, outcome) ==
    IF outcome = "ok"
    THEN LET instance == FreshId(L.instances)
         IN  [ module |-> instance,
               L |-> [L EXCEPT !.instances[instance] = NewInstance(module_name, config),
                               !.available[module_name] = ClassName(module_name)] ]
    ELSE [ module |-> None, L |-> L ]

\* initialize_module removing the entry when initialize failed
initialize_module_drops_on_failure(L, module_name, module, outcome) ==
    [ success |-> (outcome = "true"),
      L |-> [L EXCEPT !.instances[module] = AfterInitialize(@, outcome),
                      !.loaded = IF outcome = "true"
                                 THEN DictSet(@, module_name, module)
                                 ELSE IF DictHas(@, module_name)
                                 THEN DictDel(@, module_name)
                                 ELSE @] ]

\* initialize_module without the `if success:` of line 108
initialize_module_registers_always(L, module_name, module, outcome) ==
    [ success |-> (outcome = "true"),
      L |-> [L EXCEPT !.instances[module] = AfterInitialize(@, outcome),
                      !.loaded = DictSet(@, module_name, module)] ]

\* ModuleLoader.initialize_module, from the return of `await module.initialize()`
initialize_module(L, module_name, module, outcome) ==
    [ success |-> (outcome = "true"),
      L |-> [L EXCEPT !.instances[module] = AfterInitialize(@, outcome),
                      !.loaded = IF outcome = "true"
                                 THEN DictSet(@, module_name, module)
                                 ELSE @] ]

\* self.loaded_modules[module_name] raised
KeyError == 0 - 1

\* get_module with a subscript in place of .get()
get_module_subscript(L, module_name) ==
    IF DictHas(L.loaded, module_name) THEN DictGet(L.loaded, module_name) ELSE KeyError

\* ModuleLoader.get_module
get_module(L, module_name) == DictGet(L.loaded, module_name)

\* get_all_modules returning self.loaded_modules itself
get_all_modules_alias(L) == [alias |-> TRUE, items |-> L.loaded]

\* ModuleLoader.get_all_modules: a new dict with the items of loaded_modules
get_all_modules(L) == [alias |-> FALSE, items |-> L.loaded]

\* unload_module marking the instance it removes as inactive
unload_module_deactivates(L, module_name) ==
    IF DictHas(L.loaded, module_name)
    THEN [ ret |-> TRUE,
           L |-> [L EXCEPT !.instances[DictGet(L.loaded, module_name)].status = INACTIVE,
                           !.loaded = DictDel(@, module_name)] ]
    ELSE [ ret |-> FALSE, L |-> L ]

\* unload_module dropping the class of the name too
unload_module_forgets_class(L, module_name) ==
    IF DictHas(L.loaded, module_name)
    THEN [ ret |-> TRUE, L |-> [L EXCEPT !.loaded = DictDel(@, module_name),
                                         !.available[module_name] = NoClass] ]
    ELSE [ ret |-> FALSE, L |-> L ]

\* unload_module without the `del` of line 194
unload_module_keeps(L, module_name) ==
    [ ret |-> DictHas(L.loaded, module_name), L |-> L ]

\* ModuleLoader.unload_module
unload_module(L, module_name) ==
    IF DictHas(L.loaded, module_name)
    THEN [ ret |-> TRUE, L |-> [L EXCEPT !.loaded = DictDel(@, module_name)] ]
    ELSE [ ret |-> FALSE, L |-> L ]

\* ----------------------------------------------------------------- calls
\* a reference to a dict: to the loader's loaded_modules itself (alias), or
\* to a dict of its own with these items
NoDict == [alias |-> FALSE, items |-> EmptyDict]

Deref(ref) == IF ref.alias THEN loaded_modules ELSE ref.items

NoResponse == [status |-> "", modules_loaded |-> 0, modules |-> EmptyDict]

\* the frame of a call: its arguments, its locals, and what it saw of the
\* registry (dropped: the instance it removed; pre: the registry when the
\* call was made; outcome and init: what the call's load_module and its
\* `await module.initialize()` did; for load_all_modules, dirty: the names whose entry another
\* call changed while this one was suspended; for the health endpoint,
\* visited: the modules it probed and what each probe did)
NoCall ==
    [ op |-> "none", pc |-> "none",
      module_name |-> "", config |-> NoConfig, configs |-> [n \in {} |-> "cfg1"],
      discovered |-> << >>, i |-> 0, results |-> EmptyDict,
      module |-> None, ret |-> FALSE, outcome |-> "", init |-> "", health |-> "",
      modules |-> NoDict, it |-> 0, it_size |-> 0, module_health |-> EmptyDict,
      response |-> NoResponse, module_list |-> << >>, total |-> 0, statuses |-> << >>,
      wait_for_completion |-> FALSE, requests |-> 0, result |-> "",
      dropped |-> None, pre |-> EmptyDict, dirty |-> {}, visited |-> << >> ]

\* names whose registry entry differs between two values of loaded_modules
Changed(old, new) == { n \in Names : DictGet(old, n) # DictGet(new, n) }

\* the frame of a call that is made now
Call(op) == [NoCall EXCEPT !.op = op, !.pc = "running"]

\* a call is made
Begin ==
    /\ Cardinality(inflight) < NTasks
    /\ budget > 0
    /\ budget' = budget - 1

\* a suspended call resumes
Resume(self) ==
    /\ self \in inflight
    /\ UNCHANGED budget

\* the instances a frame refers to
DictValues(d) == { d[j].v : j \in 1 .. Len(d) }

FrameRefs(f) ==
    {f.module, f.dropped} \cup DictValues(f.pre) \cup DictValues(f.modules.items)
        \cup { f.visited[j].module : j \in 1 .. Len(f.visited) }

\* the instances still referred to: by the registry, by a call in flight, by
\* the result just handed to a caller, or by an observer of past reloads
Live(loaded, frames, h) ==
    DictValues(loaded) \cup UNION { FrameRefs(f) : f \in frames }
        \cup { h.reloaded[n].old : n \in Names }

\* no reload_module of the name has returned since the last load or reload
\* of it was requested
NoReload == [old |-> None, config |-> NoConfig]

\* what a returned call leaves in the record
Summary(f) ==
    [ op |-> f.op, module_name |-> f.module_name, ret |-> f.ret,
      discovered |-> f.discovered, results |-> f.results ]

\* the record of the calls: base is the registry when the first of the calls
\* that have overlapped since was made, log the calls returned since then,
\* and reloaded[n] the instance the last returned reload_module of n replaced
\* and the config it was given
Record(h, old, new) ==
    LET fresh == (old = NoCall)
        requested == IF ~fresh THEN {}
                     ELSE IF new.op = "load_all" THEN { new.discovered[j] : j \in 1 .. Len(new.discovered) }
                     ELSE IF new.op = "reload" THEN {new.module_name}
                     ELSE {}
        epoch == fresh /\ inflight = {}
        base == IF epoch THEN loaded_modules ELSE h.base
        log == IF epoch THEN << >> ELSE h.log
    IN  [ on |-> TRUE,
          base |-> base,
          log |-> IF new.pc = "done" THEN Append(log, Summary(new)) ELSE log,
          reloaded |-> [ n \in Names |->
                           IF new.pc = "done" /\ new.op = "reload" /\ new.module_name = n
                              /\ new.dropped # None
                           THEN [old |-> new.dropped, config |-> new.config]
                           ELSE IF n \in requested THEN NoReload
                           ELSE h.reloaded[n] ] ]

NoHistory ==
    [ on |-> FALSE, base |-> EmptyDict, log |-> << >>, reloaded |-> [n \in Names |-> NoReload] ]

\* reference counting: an instance no longer referred to is freed
Collect(insts, live) ==
    [ id \in InstIds |-> IF id \in live THEN insts[id] ELSE Collected ]

\* the call with frame `old` (NoCall for a call made in this step) runs to
\* its next await or to its return, leaving frame `new` and loader state L;
\* every other suspended call notes the names whose entry changed under it
Commit(old, new, L) ==
    LET others == { IF g.op = "load_all"
                    THEN [g EXCEPT !.dirty = @ \cup Changed(loaded_modules, L.loaded)]
                    ELSE g : g \in inflight \ {old} }
        h == IF hist.on THEN Record(hist, old, new) ELSE hist
    IN  /\ hist' = h
        /\ instances' = Collect(L.instances, Live(L.loaded, others \cup {new}, h))
        /\ loaded_modules' = L.loaded
        /\ available_modules' = L.available
        /\ IF new.pc \in {"done", "failed"}
           THEN inflight' = others /\ last' = new
           ELSE new \notin others /\ inflight' = others \cup {new} /\ last' = NoCall
        /\ UNCHANGED modules_dir

\* configs.get(module_name, {})
ConfigFor(configs, module_name) ==
    IF module_name \in DOMAIN configs THEN configs[module_name] ELSE EmptyConfig

\* load_all_modules, the loop of lines 150-158 from iteration i on, run up to
\* its next await (a module loaded, its initialize pending) or its return;
\* lo gives the outcome of each name's load
\* load_all_modules with a load failure ending the sweep
load_all_loop_aborts(L, self, i, lo) ==
    IF i > Len(self.discovered)
    THEN [ L |-> L, self |-> [self EXCEPT !.pc = "done", !.i = i, !.module = None] ]
    ELSE LET name == self.discovered[i]
             ld == load_module(L, name, ConfigFor(self.configs, name), lo[name])
         IN  IF ld.module # None
             THEN [ L |-> ld.L,
                    self |-> [self EXCEPT !.pc = "await_initialize", !.i = i,
                                          !.module_name = name, !.module = ld.module] ]
             ELSE [ L |-> ld.L,
                    self |-> [self EXCEPT !.pc = "done", !.i = i, !.module = None,
                                          !.results = DictSet(@, name, FALSE)] ]

RECURSIVE load_all_loop(_, _, _, _)
load_all_loop(L, self, i, lo) ==
    IF i > Len(self.discovered)
    THEN [ L |-> L, self |-> [self EXCEPT !.pc = "done", !.i = i, !.module = None] ]
    ELSE LET name == self.discovered[i]
             ld == load_module(L, name, ConfigFor(self.configs, name), lo[name])
         IN  IF ld.module # None
             THEN [ L |-> ld.L,
                    self |-> [self EXCEPT !.pc = "await_initialize", !.i = i,
                                          !.module_name = name, !.module = ld.module] ]
             ELSE load_all_loop(ld.L, [self EXCEPT !.results = DictSet(@, name, FALSE)],
                                i + 1, lo)

\* load_all_modules is called: discovery, then the loop up to the first await
LoadAllCall(configs, lo) ==
    /\ Begin
    /\ LET self == [Call("load_all") EXCEPT !.configs = configs,
                                            !.discovered = discover_modules,
                                            !.pre = loaded_modules]
           run == load_all_loop(Loader, self, 1, lo)
       IN  Commit(NoCall, run.self, run.L)

\* load_all_modules resumes: initialize returned or raised inside
\* initialize_module; the result is recorded and the loop goes on
LoadAllResume(self, outcome, lo) ==
    /\ Resume(self)
    /\ self.op = "load_all"
    /\ LET init == initialize_module(Loader, self.module_name, self.module, outcome)
           run == load_all_loop(init.L,
                                [self EXCEPT !.results = DictSet(@, self.module_name, init.success)],
                                self.i + 1, lo)
       IN  Commit(self, run.self, run.L)

\* reload_module returning False for a name that is not registered
ReloadCall_needs_entry(module_name, config, outcome) ==
    /\ Begin
    /\ LET self == [Call("reload") EXCEPT !.module_name = module_name, !.config = config,
                                          !.outcome = outcome,
                                          !.pre = loaded_modules,
                                          !.dropped = DictGet(loaded_modules, module_name)]
           un == IF DictHas(loaded_modules, module_name)
                 THEN [Loader EXCEPT !.loaded = DictDel(@, module_name)]
                 ELSE Loader
           ld == load_module(un, module_name, config, outcome)
       IN  IF ~DictHas(loaded_modules, module_name)
           THEN Commit(NoCall, [self EXCEPT !.pc = "done", !.ret = FALSE], Loader)
           ELSE IF ld.module # None
           THEN Commit(NoCall, [self EXCEPT !.pc = "await_initialize", !.module = ld.module], ld.L)
           ELSE Commit(NoCall, [self EXCEPT !.pc = "done", !.ret = FALSE], ld.L)

\* reload_module is called: unload if loaded, load, then await initialize
ReloadCall(module_name, config, outcome) ==
    /\ Begin
    /\ LET self == [Call("reload") EXCEPT !.module_name = module_name, !.config = config,
                                          !.outcome = outcome,
                                          !.pre = loaded_modules,
                                          !.dropped = DictGet(loaded_modules, module_name)]
           un == IF DictHas(loaded_modules, module_name)
                 THEN [Loader EXCEPT !.loaded = DictDel(@, module_name)]
                 ELSE Loader
           ld == load_module(un, module_name, config, outcome)
       IN  IF ld.module # None
           THEN Commit(NoCall, [self EXCEPT !.pc = "await_initialize", !.module = ld.module], ld.L)
           ELSE Commit(NoCall, [self EXCEPT !.pc = "done", !.ret = FALSE], ld.L)

\* reload_module putting the instance it removed back when initialize fails
ReloadResume_rolls_back(self, outcome) ==
    /\ Resume(self)
    /\ self.op = "reload"
    /\ LET init == initialize_module(Loader, self.module_name, self.module, outcome)
           back == IF ~init.success /\ self.dropped # None
                   THEN [init.L EXCEPT !.loaded = DictSet(@, self.module_name, self.dropped)]
                   ELSE init.L
       IN  Commit(self, [self EXCEPT !.pc = "done", !.ret = init.success, !.init = outcome],
                  back)

\* reload_module resumes and returns what initialize_module returns
ReloadResume(self, outcome) ==
    /\ Resume(self)
    /\ self.op = "reload"
    /\ LET init == initialize_module(Loader, self.module_name, self.module, outcome)
       IN  Commit(self, [self EXCEPT !.pc = "done", !.ret = init.success, !.init = outcome],
                  init.L)

\* a caller calls load_module itself: no await, one step
LoadModule(module_name, config, outcome) ==
    /\ Begin
    /\ LET ld == load_module(Loader, module_name, config, outcome)
       IN  Commit(NoCall, [Call("load") EXCEPT !.pc = "done", !.module_name = module_name,
                                               !.config = config, !.outcome = outcome,
                                               !.pre = loaded_modules,
                                               !.module = ld.module], ld.L)

\* the instances a caller can have at hand: the registered ones, and the one
\* the call that has just returned gave it
Held == (DictValues(loaded_modules) \cup {last.module}) \ {None}

\* a caller calls initialize_module itself, up to `await module.initialize()`
InitializeCall(module_name, module) ==
    /\ Begin
    /\ module \in Held
    /\ Commit(NoCall, [Call("initialize") EXCEPT !.pc = "await_initialize",
                                                 !.module_name = module_name,
                                                 !.pre = loaded_modules,
                                                 !.module = module], Loader)

\* initialize_module resumes: initialize returned or raised
InitializeResume(self, outcome) ==
    /\ Resume(self)
    /\ self.op = "initialize"
    /\ LET init == initialize_module(Loader, self.module_name, self.module, outcome)
       IN  Commit(self, [self EXCEPT !.pc = "done", !.ret = init.success, !.init = outcome],
                  init.L)

\* a caller calls discover_modules: no await, one step
Discover ==
    /\ Begin
    /\ Commit(NoCall, [Call("discover") EXCEPT !.pc = "done", !.discovered = discover_modules],
              Loader)

\* unload_module: no await, one step
Unload(module_name) ==
    /\ Begin
    /\ LET un == unload_module(Loader, module_name)
       IN  Commit(NoCall, [Call("unload") EXCEPT !.pc = "done", !.module_name = module_name,
                                                 !.dropped = DictGet(loaded_modules, module_name),
                                                 !.ret = un.ret], un.L)

\* ------------------------------------------------- backend/api/health.py
\* what `await module.health_check()` does: returns a dict whose status is
\* healthy, unhealthy or error, or raises
ProbeOutcomes == {"healthy", "unhealthy", "error", "raise"}

\* the dict a module's health_check returns
ModuleHealth(probe) == [status |-> probe, message |-> "from the module"]

\* the exception left the endpoint's loop body
Uncaught == [raised |-> TRUE]

\* lines 22-29 without the try/except
health_entry_uncaught(probe) ==
    IF probe = "raise" THEN Uncaught ELSE ModuleHealth(probe)

\* lines 22-29: the module's own result, or the error entry built from the
\* exception it raised
health_entry(probe) ==
    IF probe = "raise"
    THEN [status |-> "error", error |-> "str(e)"]
    ELSE ModuleHealth(probe)

\* the health endpoint reporting "degraded" when an entry is not healthy
health_next_degrades(self) ==
    LET d == Deref(self.modules)
    IN  IF Len(d) # self.it_size THEN [self EXCEPT !.pc = "failed"]
        ELSE IF self.it >= Len(d)
        THEN [self EXCEPT !.pc = "done",
                          !.response = [ status |-> IF \A j \in 1 .. Len(self.module_health) :
                                                          self.module_health[j].v.status = "healthy"
                                                    THEN "healthy" ELSE "degraded",
                                         modules_loaded |-> Len(d),
                                         modules |-> self.module_health ]]
        ELSE [self EXCEPT !.pc = "await_health", !.it = @ + 1,
                          !.module_name = d[self.it + 1].k,
                          !.module = d[self.it + 1].v]

\* the `for name, module in modules.items()` of line 21 moves on: a dict
\* whose size changed since the iterator was made raises RuntimeError; after
\* the last item the endpoint returns its response
health_next(self) ==
    LET d == Deref(self.modules)
    IN  IF Len(d) # self.it_size THEN [self EXCEPT !.pc = "failed"]
        ELSE IF self.it >= Len(d)
        THEN [self EXCEPT !.pc = "done",
                          !.response = [ status |-> "healthy",
                                         modules_loaded |-> Len(d),
                                         modules |-> self.module_health ]]
        ELSE [self EXCEPT !.pc = "await_health", !.it = @ + 1,
                          !.module_name = d[self.it + 1].k,
                          !.module = d[self.it + 1].v]

\* GET /health is called: the snapshot, then the loop up to its first await
HealthCall ==
    /\ Begin
    /\ LET modules == get_all_modules(Loader)
           self == [Call("health") EXCEPT !.modules = modules,
                                          !.it_size = Len(Deref(modules)),
                                          !.pre = loaded_modules]
       IN  Commit(NoCall, health_next(self), Loader)

\* GET /health resumes: the probe returned or raised
HealthResume(self, probe) ==
    /\ Resume(self)
    /\ self.op = "health"
    /\ LET entry == health_entry(probe)
           seen == [self EXCEPT !.visited = Append(@, [ name |-> self.module_name,
                                                         module |-> self.module,
                                                         probe |-> probe ])]
       IN  IF entry = Uncaught
           THEN Commit(self, [seen EXCEPT !.pc = "failed"], Loader)
           ELSE Commit(self, health_next([seen EXCEPT !.module_health =
                                                 DictSet(@, self.module_name, entry)]),
                       Loader)

\* ------------------------------------------------- backend/api/modules.py
\* outcomes of `await module.get_info()` and `await module.get_capabilities()`
MetaOutcomes == {"ok", "raise"}

\* lines 21-27 without the try/except
list_entry_uncaught(name, meta, status) ==
    IF meta = "raise" THEN Uncaught
    ELSE << [k |-> "name", v |-> name], [k |-> "info", v |-> "info.dict()"],
            [k |-> "status", v |-> status] >>

\* lines 20-32: the entry of a module, with its info and the status it has
\* now, or the error entry built from the exception get_info raised
list_entry(name, meta, status) ==
    IF meta = "raise"
    THEN << [k |-> "name", v |-> name], [k |-> "error", v |-> "str(e)"],
            [k |-> "status", v |-> "error"] >>
    ELSE << [k |-> "name", v |-> name], [k |-> "info", v |-> "info.dict()"],
            [k |-> "status", v |-> status] >>

\* the `for name, module in modules.items()` of line 19 moves on; after the
\* last item the endpoint returns total and modules (lines 34-37)
list_next(self) ==
    LET d == Deref(self.modules)
    IN  IF Len(d) # self.it_size THEN [self EXCEPT !.pc = "failed"]
        ELSE IF self.it >= Len(d)
        THEN [self EXCEPT !.pc = "done", !.total = Len(self.module_list)]
        ELSE [self EXCEPT !.pc = "await_get_info", !.it = @ + 1,
                          !.module_name = d[self.it + 1].k,
                          !.module = d[self.it + 1].v]

\* GET /modules is called: the snapshot, then the loop up to its first await
ListCall ==
    /\ Begin
    /\ LET modules == get_all_modules(Loader)
           self == [Call("list") EXCEPT !.modules = modules,
                                        !.it_size = Len(Deref(modules)),
                                        !.pre = loaded_modules]
       IN  Commit(NoCall, list_next(self), Loader)

\* GET /modules resumes: get_info returned or raised
ListResume(self, meta) ==
    /\ Resume(self)
    /\ self.op = "list"
    /\ LET status == instances[self.module].status
           entry == list_entry(self.module_name, meta, status)
           seen == [self EXCEPT !.visited = Append(@, [ name |-> self.module_name,
                                                         module |-> self.module,
                                                         probe |-> meta ]),
                                !.statuses = Append(@, status)]
       IN  IF entry = Uncaught
           THEN Commit(self, [seen EXCEPT !.pc = "failed"], Loader)
           ELSE Commit(self, list_next([seen EXCEPT !.module_list = Append(@, entry)]), Loader)

\* GET /modules/{module_name} is called: for a name that is not registered
\* it raises HTTPException 404 (lines 47-50), else it runs up to
\* `await module.get_info()`
DetailCall(module_name) ==
    /\ Begin
    /\ LET module == get_module(Loader, module_name)
           self == [Call("detail") EXCEPT !.module_name = module_name]
       IN  IF module = None
           THEN Commit(NoCall, [self EXCEPT !.pc = "failed", !.outcome = "not_found"], Loader)
           ELSE Commit(NoCall, [self EXCEPT !.pc = "await_get_info", !.module = module], Loader)

\* GET /modules/{module_name} resumes (lines 52-54, no try): what the
\* awaited call raises leaves the endpoint; after get_info comes
\* get_capabilities, then health_check, then the response (lines 56-62)
detail_step(self, outcome, status) ==
    IF outcome = "raise" THEN [self EXCEPT !.pc = "failed"]
    ELSE IF self.pc = "await_get_info" THEN [self EXCEPT !.pc = "await_get_capabilities"]
    ELSE IF self.pc = "await_get_capabilities" THEN [self EXCEPT !.pc = "await_health_check"]
    ELSE [self EXCEPT !.pc = "done", !.health = outcome, !.init = status]

DetailResume(self, outcome) ==
    /\ Resume(self)
    /\ self.op = "detail"
    /\ outcome \in (IF self.pc = "await_health_check" THEN ProbeOutcomes ELSE MetaOutcomes)
    /\ Commit(self, detail_step(self, outcome, instances[self.module].status), Loader)

\* GET /modules/{module_name}/capabilities is called (lines 69-73)
CapabilitiesCall(module_name) ==
    /\ Begin
    /\ LET module == get_module(Loader, module_name)
           self == [Call("capabilities") EXCEPT !.module_name = module_name]
       IN  IF module = None
           THEN Commit(NoCall, [self EXCEPT !.pc = "failed", !.outcome = "not_found"], Loader)
           ELSE Commit(NoCall, [self EXCEPT !.pc = "await_get_capabilities",
                                            !.module = module], Loader)

\* GET /modules/{module_name}/capabilities resumes (line 75, no try)
CapabilitiesResume(self, meta) ==
    /\ Resume(self)
    /\ self.op = "capabilities"
    /\ Commit(self, [self EXCEPT !.pc = IF meta = "raise" THEN "failed" ELSE "done"], Loader)

\* ---------------------------------------------- callers of the registry
\* a caller takes get_all_modules() and keeps the dict
ClientGetAll ==
    /\ Begin
    /\ Commit(NoCall, [Call("client") EXCEPT !.pc = "holding",
                                             !.modules = get_all_modules(Loader),
                                             !.pre = loaded_modules],
              Loader)

\* the caller changes the dict it was given: it removes a name (value None
\* here), or adds or rebinds one
ClientMutate(self, name, value) ==
    /\ Resume(self)
    /\ self.op = "client"
    /\ LET d == Deref(self.modules)
           changed == IF value = None
                      THEN IF DictHas(d, name) THEN DictDel(d, name) ELSE d
                      ELSE DictSet(d, name, value)
       IN  /\ changed # d
           /\ IF self.modules.alias
              THEN Commit(self, [self EXCEPT !.pc = "done"],
                          [Loader EXCEPT !.loaded = changed])
              ELSE Commit(self, [self EXCEPT !.pc = "done", !.modules.items = changed],
                          Loader)

\* a name no module directory has
Unknown == "gamma"

\* a caller calls get_module
GetModule(module_name) ==
    /\ Begin
    /\ LET module == get_module(Loader, module_name)
           self == [Call("get") EXCEPT !.module_name = module_name]
       IN  IF module = KeyError
           THEN Commit(NoCall, [self EXCEPT !.pc = "failed"], Loader)
           ELSE Commit(NoCall, [self EXCEPT !.pc = "done", !.module = module], Loader)

\* ------------------------------------------- backend/modules/*/module.py
\* the module packages of the repository
ModuleNames == {"virustotal", "thehive", "limacharlie", "abuseipdb", "shodan", "urlscan"}

\* a config with an api_key and nothing else
KeyOnly == "{api_key}"

\* the configs a module is constructed with: none of the settings, the
\* api_key alone, all of them
ModuleConfigs == {EmptyConfig, KeyOnly, "cfg1"}

\* the `if not self.api_key ...` of initialize passes: thehive needs api_url
\* too, limacharlie organization_id
ConfigComplete(class, config) ==
    IF class \in {"ThehiveModule", "LimacharlieModule"}
    THEN config \in Configs
    ELSE config \in Configs \cup {KeyOnly}

\* initialize() probing before it looks at the settings
initialize_validate_probes_first(inst) ==
    IF inst.class = "UrlscanModule" /\ ConfigComplete(inst.class, inst.config)
    THEN [ pc |-> "done", ret |-> TRUE,
           inst |-> [inst EXCEPT !.status = ACTIVE, !.initialized = TRUE] ]
    ELSE [ pc |-> "await_health_check", ret |-> FALSE,
           inst |-> [inst EXCEPT !.api = (inst.class = "ThehiveModule")] ]

\* initialize() up to `await self.health_check()`: a missing setting ends it
\* with status ERROR and False; urlscan does not probe and ends with ACTIVE
\* and True; the others go on to probe
initialize_validate(inst) ==
    IF ~ConfigComplete(inst.class, inst.config)
    THEN [ pc |-> "done", ret |-> FALSE, inst |-> [inst EXCEPT !.status = ERROR] ]
    ELSE IF inst.class = "UrlscanModule"
    THEN [ pc |-> "done", ret |-> TRUE,
           inst |-> [inst EXCEPT !.status = ACTIVE, !.initialized = TRUE] ]
    ELSE [ pc |-> "await_health_check", ret |-> FALSE,
           inst |-> [inst EXCEPT !.api = (inst.class = "ThehiveModule")] ]

\* initialize() from the return of health_check: ACTIVE and True when the
\* probe is healthy, ERROR and False otherwise, an exception included
initialize_finish(inst, probe) ==
    IF probe = "healthy"
    THEN [ ret |-> TRUE, inst |-> [inst EXCEPT !.status = ACTIVE, !.initialized = TRUE] ]
    ELSE [ ret |-> FALSE, inst |-> [inst EXCEPT !.status = ERROR] ]

\* what the request of a probe meets: status 200 with a body, status 200
\* with an empty JSON body, another status, an exception of the transport
NetOutcomes == {"ok", "empty", "refused", "exception"}

\* health_check with the exception of the transport let through
health_check_propagates(inst, net) ==
    [ health |-> IF net = "exception" THEN "raised"
                 ELSE IF net = "refused" THEN "unhealthy" ELSE "healthy",
      inst |-> inst ]

\* health_check noting a failed probe in the status of the instance
health_check_sets_status(inst, net) ==
    IF net \in {"ok", "empty"}
    THEN [ health |-> "healthy", inst |-> inst ]
    ELSE [ health |-> "unhealthy", inst |-> [inst EXCEPT !.status = ERROR] ]

\* health_check() of the module classes: the "status" of the dict returned
\* and the instance after it. ThehiveModule answers "error" without a
\* request while it has no client; AbuseipdbModule and UrlscanModule probe
\* through check_ip and search, which turn a failure into None
health_check(inst, net) ==
    [ health |->
        IF inst.class = "ThehiveModule" /\ ~inst.api THEN "error"
        ELSE IF inst.class = "AbuseipdbModule"
        THEN (IF net = "ok" THEN "healthy" ELSE "unhealthy")
        ELSE IF inst.class = "UrlscanModule"
        THEN (IF net \in {"ok", "empty"} THEN "healthy" ELSE "unhealthy")
        ELSE IF net \in {"ok", "empty"} THEN "healthy"
        ELSE IF net = "refused" THEN "unhealthy"
        ELSE "error",
      inst |-> inst ]

\* module_class(config=config)
Construct(module_name, config) ==
    /\ Begin
    /\ LET instance == FreshId(instances)
       IN  Commit(NoCall, [Call("construct") EXCEPT !.pc = "done", !.module_name = module_name,
                                                    !.config = config, !.module = instance],
                  [Loader EXCEPT !.instances[instance] = NewInstance(module_name, config)])

\* the instances the callers have at hand
HeldModules == ({last.module} \cup { f.module : f \in inflight }) \ {None}

\* module.initialize() is called
ModuleInitializeCall(module) ==
    /\ Begin
    /\ module \in HeldModules
    /\ LET run == initialize_validate(instances[module])
       IN  Commit(NoCall, [Call("module_initialize") EXCEPT !.pc = run.pc, !.module = module,
                                                            !.ret = run.ret],
                  [Loader EXCEPT !.instances[module] = run.inst])

\* module.initialize() resumes with the probe's result
ModuleInitializeResume(self, probe) ==
    /\ Resume(self)
    /\ self.op = "module_initialize"
    /\ LET run == initialize_finish(instances[self.module], probe)
       IN  Commit(self, [self EXCEPT !.pc = "done", !.ret = run.ret, !.init = probe],
                  [Loader EXCEPT !.instances[self.module] = run.inst])

\* module.health_check() is called: ThehiveModule has no await and returns
\* in the same step, the others await the request
ModuleHealthCall(module, net) ==
    /\ Begin
    /\ module \in HeldModules
    /\ LET self == [Call("module_health") EXCEPT !.module = module]
           run == health_check(instances[module], net)
       IN  IF instances[module].class = "ThehiveModule"
           THEN Commit(NoCall, [self EXCEPT !.pc = "done", !.health = run.health],
                       [Loader EXCEPT !.instances[module] = run.inst])
           ELSE Commit(NoCall, [self EXCEPT !.pc = "await_request"], Loader)

\* module.health_check() resumes with what the request met
ModuleHealthResume(self, net) ==
    /\ Resume(self)
    /\ self.op = "module_health"
    /\ LET run == health_check(instances[self.module], net)
       IN  Commit(self, [self EXCEPT !.pc = "done", !.health = run.health],
                  [Loader EXCEPT !.instances[self.module] = run.inst])

\* ---------------------------------- UrlscanModule.get_result (150-184)
\* `max_retries = 10 if wait_for_completion else 1`
MaxRetries == 10

max_retries(wait_for_completion) == IF wait_for_completion THEN MaxRetries ELSE 1

\* what client.get meets: status 200 with a JSON body, status 200 with a
\* body response.json() raises on, status 404, another status, an exception
Responses == {"200", "200_bad_json", "404", "500", "exception"}

\* get_result sleeping on a 404 after its last attempt too
get_result_response_retries_once_more(self, response) ==
    IF response = "200"
    THEN [self EXCEPT !.pc = "done", !.outcome = response, !.result = "json"]
    ELSE IF response = "404" /\ self.wait_for_completion
            /\ self.i < max_retries(self.wait_for_completion)
    THEN [self EXCEPT !.pc = "await_sleep", !.outcome = response]
    ELSE [self EXCEPT !.pc = "done", !.outcome = response, !.result = "None"]

\* lines 171-178 and the except of 182-184: the response of attempt self.i
\* has come
get_result_response(self, response) ==
    IF response = "200"
    THEN [self EXCEPT !.pc = "done", !.outcome = response, !.result = "json"]
    ELSE IF response = "404" /\ self.wait_for_completion
            /\ self.i < max_retries(self.wait_for_completion) - 1
    THEN [self EXCEPT !.pc = "await_sleep", !.outcome = response]
    ELSE [self EXCEPT !.pc = "done", !.outcome = response, !.result = "None"]

\* `for attempt in range(max_retries)` gives attempt i, and the request of
\* lines 165-169 is sent; after the last attempt, the `return None` of 181
get_result_attempt(self, i) ==
    IF i < max_retries(self.wait_for_completion)
    THEN [self EXCEPT !.pc = "await_request", !.i = i, !.requests = @ + 1]
    ELSE [self EXCEPT !.pc = "done", !.i = i, !.result = "None"]

\* get_result(uuid, wait_for_completion) is called: up to the first request
GetResultCall(wait_for_completion) ==
    /\ Begin
    /\ Commit(NoCall,
              get_result_attempt([Call("get_result") EXCEPT
                                      !.wait_for_completion = wait_for_completion], 0),
              Loader)

\* get_result resumes with the response of its request
GetResultResponse(self, response) ==
    /\ Resume(self)
    /\ self.op = "get_result" /\ self.pc = "await_request"
    /\ Commit(self, get_result_response(self, response), Loader)

\* get_result resumes from asyncio.sleep(retry_delay): `continue`
GetResultWake(self) ==
    /\ Resume(self)
    /\ self.op = "get_result" /\ self.pc = "await_sleep"
    /\ Commit(self, get_result_attempt(self, self.i + 1), Loader)

\* the load outcomes of the names load_all_modules has still to process
\* after iteration i of a sweep over `discovered`
LoadOutcomeMaps(discovered, i) ==
    [ { discovered[j] : j \in (i + 1) .. Len(discovered) } -> LoadOutcomes ]

Init ==
    /\ modules_dir = ModulesDir
    /\ instances = [id \in InstIds |-> Collected]
    /\ loaded_modules = EmptyDict
    /\ available_modules = [n \in Names |-> NoClass]
    /\ inflight = {}
    /\ last = NoCall
    /\ budget = MaxCalls
    /\ hist = NoHistory

Next ==
    \/ \E configs \in ConfigMaps, lo \in LoadOutcomeMaps(discover_modules, 0) :
            LoadAllCall(configs, lo)
    \/ \E self \in inflight, o \in InitOutcomes :
            \E lo \in LoadOutcomeMaps(self.discovered, self.i) : LoadAllResume(self, o, lo)
    \/ \E n \in Names, c \in ReloadConfigs, o \in LoadOutcomes : ReloadCall(n, c, o)
    \/ \E self \in inflight, o \in InitOutcomes : ReloadResume(self, o)
    \/ \E n \in Names : Unload(n)
    \/ \E n \in Names, c \in ReloadConfigs, o \in LoadOutcomes : LoadModule(n, c, o)
    \/ \E n \in Names, module \in InstIds : InitializeCall(n, module)
    \/ \E self \in inflight, o \in InitOutcomes : InitializeResume(self, o)
    \/ HealthCall
    \/ \E self \in inflight, probe \in ProbeOutcomes : HealthResume(self, probe)
    \/ ClientGetAll
    \/ \E self \in inflight, n \in Names \cup {Unknown} :
            \E v \in DictValues(loaded_modules) \cup {None} : ClientMutate(self, n, v)
    \/ \E n \in Names \cup {Unknown} : GetModule(n)

Spec == Init /\ [][Next]_vars

\* the calls that change the registry, with the record of the calls kept
InitRecorded ==
    /\ modules_dir = ModulesDir
    /\ instances = [id \in InstIds |-> Collected]
    /\ loaded_modules = EmptyDict
    /\ available_modules = [n \in Names |-> NoClass]
    /\ inflight = {}
    /\ last = NoCall
    /\ budget = MaxRecordedCalls
    /\ hist = [NoHistory EXCEPT !.on = TRUE]

NextRecorded ==
    \/ \E configs \in ConfigMaps, lo \in LoadOutcomeMaps(discover_modules, 0) :
            LoadAllCall(configs, lo)
    \/ \E self \in inflight, o \in InitOutcomes :
            \E lo \in LoadOutcomeMaps(self.discovered, self.i) : LoadAllResume(self, o, lo)
    \/ \E n \in Names, c \in ReloadConfigs, o \in LoadOutcomes : ReloadCall(n, c, o)
    \/ \E self \in inflight, o \in InitOutcomes : ReloadResume(self, o)
    \/ \E n \in Names : Unload(n)

SpecRecorded == InitRecorded /\ [][NextRecorded]_vars

\* load_all_modules, called while other sweeps and unload_module run, every
\* suspended sweep resumed in the end: the event loop runs a coroutine again
\* once the initialize it awaits has returned or raised. The fairness is the
\* weak fairness of LoadAllStep, WF_vars(LoadAllStep), with
\* ENABLED <<LoadAllStep>>_vars written as the state predicate it is equal
\* to, LoadAllSuspended (LoadAllStepEnabled states the equality)
LoadAllSuspended == \E f \in inflight : f.op = "load_all"

LoadAllStep ==
    \E self \in inflight, o \in InitOutcomes :
        \E lo \in LoadOutcomeMaps(self.discovered, self.i) : LoadAllResume(self, o, lo)

NextLive ==
    \/ \E configs \in ConfigMaps, lo \in LoadOutcomeMaps(discover_modules, 0) :
            LoadAllCall(configs, lo)
    \/ LoadAllStep
    \/ \E n \in Names : Unload(n)

SpecLive ==
    /\ Init
    /\ [][NextLive]_vars
    /\ ([]<>(~LoadAllSuspended) \/ []<><<LoadAllStep>>_vars)

\* the endpoints of api/modules.py, called while load_all_modules and
\* unload_module run
NextApi ==
    \/ \E configs \in ConfigMaps, lo \in LoadOutcomeMaps(discover_modules, 0) :
            LoadAllCall(configs, lo)
    \/ LoadAllStep
    \/ \E n \in Names : Unload(n)
    \/ ListCall
    \/ \E self \in inflight, meta \in MetaOutcomes : ListResume(self, meta)
    \/ \E n \in Names \cup {Unknown} : DetailCall(n)
    \/ \E self \in inflight, o \in MetaOutcomes \cup ProbeOutcomes : DetailResume(self, o)
    \/ \E n \in Names \cup {Unknown} : CapabilitiesCall(n)
    \/ \E self \in inflight, meta \in MetaOutcomes : CapabilitiesResume(self, meta)

SpecApi == Init /\ [][NextApi]_vars

\* load_all_modules, reload_module and unload_module alone, in any order
\* and interleaving: the registry as the application itself drives it
SpecMutators == Init /\ [][NextRecorded]_vars

\* discovery, over the modules directories
InitDiscover ==
    /\ modules_dir \in Directories
    /\ instances = [id \in InstIds |-> Collected]
    /\ loaded_modules = EmptyDict
    /\ available_modules = [n \in Names |-> NoClass]
    /\ inflight = {}
    /\ last = NoCall
    /\ budget = MaxCalls
    /\ hist = NoHistory

NextDiscover == Discover

SpecDiscover == InitDiscover /\ [][NextDiscover]_vars

\* UrlscanModule.get_result, called by its callers
InitGetResult ==
    /\ modules_dir = ModulesDir
    /\ instances = [id \in InstIds |-> Collected]
    /\ loaded_modules = EmptyDict
    /\ available_modules = [n \in Names |-> NoClass]
    /\ inflight = {}
    /\ last = NoCall
    /\ budget = MaxResultCalls
    /\ hist = NoHistory

NextGetResult ==
    \/ \E wait_for_completion \in BOOLEAN : GetResultCall(wait_for_completion)
    \/ \E self \in inflight, response \in Responses : GetResultResponse(self, response)
    \/ \E self \in inflight : GetResultWake(self)

SpecGetResult == InitGetResult /\ [][NextGetResult]_vars

\* the module classes of the repository, constructed and initialized by
\* their callers
InitModule ==
    /\ modules_dir = ModulesDir
    /\ instances = [id \in InstIds |-> Collected]
    /\ loaded_modules = EmptyDict
    /\ available_modules = [n \in Names |-> NoClass]
    /\ inflight = {}
    /\ last = NoCall
    /\ budget = MaxModuleCalls
    /\ hist = NoHistory

NextModule ==
    \/ \E n \in ModuleNames, c \in ModuleConfigs : Construct(n, c)
    \/ \E module \in InstIds : ModuleInitializeCall(module)
    \/ \E self \in inflight, probe \in ProbeOutcomes : ModuleInitializeResume(self, probe)
    \/ \E module \in InstIds, net \in NetOutcomes : ModuleHealthCall(module, net)
    \/ \E self \in inflight, net \in NetOutcomes : ModuleHealthResume(self, net)

SpecModule == InitModule /\ [][NextModule]_vars

\* ------------------------------------------------------------ properties
\* there is always an identity for a new instance
TypeOK ==
    /\ \E id \in InstIds : instances[id] = Collected
    /\ DictKeys(loaded_modules) \subseteq Names
    /\ Cardinality(inflight) <= NTasks

SeqRange(q) == { q[j] : j \in 1 .. Len(q) }

\* the number of items a dict holds under a key
Entries(d, key) == Cardinality({ j \in 1 .. Len(d) : d[j].k = key })

Registered(n) == get_module(Loader, n) # None

\* a load_all_modules call has just returned
LoadAllReturned == last.op = "load_all"

\* C1 as claimed: when load_all_modules returns, also on a registry that
\* already held modules, every discovered name has exactly one boolean entry
\* in the result and is registered iff that entry is true.  Stated for the
\* calls no other call interfered with.
C1_EntryTrueIffRegistered ==
    (LoadAllReturned /\ last.dirty = {}) =>
        \A n \in SeqRange(last.discovered) :
            /\ Entries(last.results, n) = 1
            /\ DictGet(last.results, n) \in BOOLEAN
            /\ Registered(n) <=> DictGet(last.results, n)

\* C1 amended: when load_all_modules returns, every discovered name has
\* exactly one boolean entry in the result; a name that was not registered
\* when the call was made, and whose entry no other call changed meanwhile,
\* is registered iff its entry is true; a name that was registered when the
\* call was made, and whose entry no other call changed, is still registered
\* whatever its entry says.
C1_EntryTrueIffRegisteredFresh ==
    LoadAllReturned =>
        \A n \in SeqRange(last.discovered) :
            /\ Entries(last.results, n) = 1
            /\ DictGet(last.results, n) \in BOOLEAN
            /\ (n \notin last.dirty /\ ~DictHas(last.pre, n)) =>
                    (Registered(n) <=> DictGet(last.results, n))
            /\ (n \notin last.dirty /\ DictHas(last.pre, n)) => Registered(n)

\* C1 witness: a load_all_modules on a registry that held beta returns with
\* alpha newly registered and beta's new load or initialization failed
C1_Witness ==
    /\ LoadAllReturned /\ last.dirty = {}
    /\ DictKeys(last.pre) = {"beta"}
    /\ DictGet(last.results, "alpha") = TRUE /\ DictGet(last.results, "beta") = FALSE
    /\ Registered("alpha") /\ Registered("beta")

\* the instance registered under n is the one a sweep with these configs
\* builds and initializes for n, and not the one registered before the sweep
RegisteredBy(call, n) ==
    LET module == get_module(Loader, n)
    IN  /\ module # None
        /\ module # DictGet(call.pre, n)
        /\ instances[module].class = ClassName(n)
        /\ instances[module].config = ConfigFor(call.configs, n)
        /\ instances[module].initialized

\* C2 as claimed: whatever modules fail, load_all_modules returns an entry
\* for every discovered name, every failing module is absent from the
\* registry, and every other module is registered with the instance built
\* and initialized for it.  Stated for the calls no other call interfered with.
C2_FailuresIsolatedAndAbsent ==
    (LoadAllReturned /\ last.dirty = {}) =>
        \A n \in SeqRange(last.discovered) :
            /\ Entries(last.results, n) = 1
            /\ DictGet(last.results, n) = FALSE => ~Registered(n)
            /\ DictGet(last.results, n) = TRUE => RegisteredBy(last, n)

\* C2 amended: whatever modules fail, load_all_modules returns an entry for
\* every discovered name; a failing module gets no entry from the sweep, so
\* the registry holds under its name what it held when the call was made
\* (nothing, or the instance registered before); and every other module is
\* registered with the instance built and initialized for it (names whose
\* entry another call changed meanwhile apart).
C2_FailuresIsolated ==
    LoadAllReturned =>
        \A n \in SeqRange(last.discovered) :
            /\ Entries(last.results, n) = 1
            /\ n \notin last.dirty =>
                /\ DictGet(last.results, n) = FALSE =>
                        get_module(Loader, n) = DictGet(last.pre, n)
                /\ DictGet(last.results, n) = TRUE => RegisteredBy(last, n)

\* C2 witness: alpha's load failed and beta was still loaded, initialized
\* and registered by the same sweep
C2_Witness ==
    /\ LoadAllReturned /\ last.dirty = {} /\ last.pre = EmptyDict
    /\ last.results = << [k |-> "alpha", v |-> FALSE], [k |-> "beta", v |-> TRUE] >>
    /\ ~Registered("alpha") /\ RegisteredBy(last, "beta")

\* C3: while reload_module runs on a registered name, a get_all_modules
\* snapshot holds the old or the new instance under that name
C3_ReloadNeverEntryless ==
    \A f \in inflight :
        (f.op = "reload" /\ f.dropped # None) =>
            DictGet(get_all_modules(Loader).items, f.module_name) \in {f.dropped, f.module}

\* the calls of the record that touch name n, replayed one after the other in
\* some order from a registry where n is registered iff `present`: every
\* unload_module returns what it returned, and n ends registered iff `final`
RECURSIVE Replays(_, _, _, _)
Replays(n, present, todo, final) ==
    IF todo = {} THEN present = final
    ELSE \E c \in todo :
            LET call == hist.log[c]
            IN  IF call.op = "unload"
                THEN call.ret = present /\ Replays(n, FALSE, todo \ {c}, final)
                ELSE IF call.op = "reload"
                THEN Replays(n, call.ret, todo \ {c}, final)
                ELSE Replays(n, present \/ DictGet(call.results, n), todo \ {c}, final)

Touches(call, n) ==
    IF call.op = "load_all" THEN DictHas(call.results, n) ELSE call.module_name = n

\* C4: once the calls that overlapped have all returned, what they returned
\* and which names are registered is what the same calls, run one after the
\* other in some order, return and leave registered
C4_Serializable ==
    (hist.on /\ inflight = {}) =>
        \A n \in Names :
            Replays(n, DictHas(hist.base, n),
                    { c \in 1 .. Len(hist.log) : Touches(hist.log[c], n) },
                    Registered(n))

\* C5: after reload_module(n, cfg2) returned on a registry that held n, and
\* until another load or reload of n is requested, get_module(n) is None or
\* an instance built from cfg2, and never the instance the reload replaced
C5_ReloadedConfigStays ==
    \A n \in Names :
        (hist.reloaded[n] # NoReload /\ Registered(n)) =>
            /\ get_module(Loader, n) # hist.reloaded[n].old
            /\ instances[get_module(Loader, n)].config =
                   NewInstance(n, hist.reloaded[n].config).config

\* C6: unload_module of an absent name returns false and changes neither
\* mapping; of a present name it returns true and removes that entry and no
\* other; a get_module right after it returns None
C6_Unload ==
    [][ last'.op = "unload" =>
          LET n == last'.module_name
          IN  /\ last'.ret = DictHas(loaded_modules, n)
              /\ ~DictHas(loaded_modules, n) =>
                    /\ loaded_modules' = loaded_modules
                    /\ available_modules' = available_modules
              /\ DictHas(loaded_modules, n) =>
                    /\ DictKeys(loaded_modules') = DictKeys(loaded_modules) \ {n}
                    /\ \A m \in Names \ {n} :
                          DictGet(loaded_modules', m) = DictGet(loaded_modules, m)
              /\ get_module([Loader EXCEPT !.loaded = loaded_modules'], n) = None ]_vars

\* C6 witness: an unload_module returned true and the other name is still
\* registered
C6_Witness ==
    /\ last.op = "unload" /\ last.ret = TRUE /\ last.dropped # None
    /\ \E m \in Names \ {last.module_name} : Registered(m)

\* a GET /health call has just ended
HealthReturned == last.op = "health"

\* C7: the health endpoint never fails as a whole: it returns exactly one
\* entry per module of the snapshot it took; a module whose health_check
\* raised has the entry {status: error, error: ...}, every other module the
\* dict its own health_check returned
C7_HealthNeverFails ==
    HealthReturned =>
        /\ last.pc = "done"
        /\ DictKeys(last.response.modules) = DictKeys(last.pre)
        /\ \A n \in DictKeys(last.pre) : Entries(last.response.modules, n) = 1
        /\ { v.name : v \in SeqRange(last.visited) } = DictKeys(last.pre)
        /\ \A v \in SeqRange(last.visited) :
              LET entry == DictGet(last.response.modules, v.name)
              IN  IF v.probe = "raise"
                  THEN entry.status = "error" /\ DOMAIN entry = {"status", "error"}
                  ELSE entry = [status |-> v.probe, message |-> "from the module"]

\* C7 witness: the first module's health_check raised, the second one's
\* returned healthy, and the endpoint returned both entries
C7_Witness ==
    /\ HealthReturned /\ last.pc = "done" /\ Len(last.visited) = 2
    /\ last.visited[1].probe = "raise" /\ last.visited[2].probe = "healthy"
    /\ DictGet(last.response.modules, last.visited[1].name).status = "error"
    /\ DictGet(last.response.modules, last.visited[2].name).status = "healthy"

\* C8: a caller adding, removing or rebinding names in the dict
\* get_all_modules returned leaves the registry as it was: every get_module
\* and get_all_modules returns after it what it returned before
C8_CopyIsIndependent ==
    [][ last'.op = "client" =>
          /\ loaded_modules' = loaded_modules
          /\ get_all_modules([Loader EXCEPT !.loaded = loaded_modules']).items =
                 get_all_modules(Loader).items
          /\ \A n \in Names \cup {Unknown} :
                 get_module([Loader EXCEPT !.loaded = loaded_modules'], n) =
                     get_module(Loader, n) ]_vars

\* C8 witness: a caller changed the dict it got from a registry that holds
\* modules, and its dict now differs from the registry's
C8_Witness ==
    /\ last.op = "client" /\ last.pc = "done"
    /\ loaded_modules # EmptyDict
    /\ last.modules.items # loaded_modules
    /\ loaded_modules = last.pre

C10_GetModule ==
    /\ [][ last'.op = "get" =>
             LET n == last'.module_name
                 at == { j \in 1 .. Len(loaded_modules) : loaded_modules[j].k = n }
             IN  /\ last'.pc = "done"
                 /\ at = {} => last'.module = None
                 /\ \A j \in at : last'.module = loaded_modules[j].v
                 /\ loaded_modules' = loaded_modules ]_vars
    /\ [](/\ get_module(Loader, Unknown) = None
          /\ last.op = "unload" => get_module(Loader, last.module_name) = None
          /\ LoadAllReturned =>
                \A n \in SeqRange(last.discovered) :
                    (n \notin last.dirty /\ ~DictHas(last.pre, n)
                        /\ DictGet(last.results, n) = FALSE) =>
                            get_module(Loader, n) = None)

\* C10 witness: get_module returned None for a name the registry does not
\* hold while it holds another
C10_Witness ==
    /\ last.op = "get" /\ last.pc = "done" /\ last.module = None
    /\ last.module_name \in Names
    /\ loaded_modules # EmptyDict

\* the calls that took a step: the one that has just returned, or the one
\* that has just been suspended
Moved == (inflight' \cup {last'}) \ inflight

\* C11: reload_module of a name that is not registered does what load_module
\* and then, when it returned an instance, initialize_module do from the same
\* state: the same return value, loaded_modules and available_modules, for
\* every outcome of the load and of initialize
C11_ReloadIsLoadThenInitialize ==
    [][ \A f \in Moved :
          (f.op = "reload" /\ f.dropped = None) =>
              IF f.init = ""
              THEN LET ld == load_module(Loader, f.module_name, f.config, f.outcome)
                   IN  /\ loaded_modules' = ld.L.loaded
                       /\ available_modules' = ld.L.available
                       /\ f.module = ld.module
                       /\ IF ld.module = None
                          THEN f.pc = "done" /\ f.ret = FALSE
                          ELSE f.pc = "await_initialize"
              ELSE LET init == initialize_module(Loader, f.module_name, f.module, f.init)
                   IN  /\ loaded_modules' = init.L.loaded
                       /\ available_modules' = init.L.available
                       /\ f.pc = "done" /\ f.ret = init.success ]_vars

\* C11 witness: a reload_module of a name that was not registered returned
\* true and the instance it built is registered
C11_Witness ==
    /\ last.op = "reload" /\ last.dropped = None /\ ~DictHas(last.pre, last.module_name)
    /\ last.ret = TRUE
    /\ get_module(Loader, last.module_name) = last.module

\* C12: load_module never raises; when the import fails, the class is
\* missing or the constructor raises, it returns None and changes neither
\* loaded_modules nor available_modules
C12_LoadNeverRaises ==
    [][ last'.op = "load" =>
          /\ last'.pc = "done"
          /\ loaded_modules' = loaded_modules
          /\ last'.outcome # "ok" =>
                /\ last'.module = None
                /\ available_modules' = available_modules ]_vars

\* C12 witness: a load_module whose constructor raised returned None on a
\* registry that holds a module
C12_Witness ==
    /\ last.op = "load" /\ last.pc = "done" /\ last.outcome = "ctor_raises"
    /\ last.module = None
    /\ loaded_modules # EmptyDict /\ loaded_modules = last.pre

\* C13: initialize_module registers the instance under the name and returns
\* true when initialize succeeded; when initialize returned false or raised
\* it returns false, raises nothing and leaves loaded_modules as it was, an
\* instance registered before under the name included
C13_InitializeAndRegister ==
    [][ last'.op = "initialize" =>
          /\ last'.pc = "done"
          /\ IF last'.init = "true"
             THEN /\ last'.ret = TRUE
                  /\ loaded_modules' = DictSet(loaded_modules, last'.module_name, last'.module)
             ELSE /\ last'.ret = FALSE
                  /\ loaded_modules' = loaded_modules ]_vars

\* C13 witness: initialize raised in an initialize_module for a name that
\* holds another instance, which is still registered
C13_Witness ==
    /\ last.op = "initialize" /\ last.init = "raise" /\ last.ret = FALSE
    /\ Registered(last.module_name)
    /\ get_module(Loader, last.module_name) # last.module

\* C14: every registered instance is one whose initialize returned success
\* before it was inserted
C14_RegisteredAfterInitialize ==
    \A module \in DictValues(loaded_modules) :
        /\ instances[module] # Collected
        /\ instances[module].initialized

\* C14 witness: while one module is registered, another instance is built
\* and waits for its initialize, unregistered
C14_Witness ==
    /\ loaded_modules # EmptyDict
    /\ \E f \in inflight :
          /\ f.pc = "await_initialize"
          /\ ~instances[f.module].initialized
          /\ f.module \notin DictValues(loaded_modules)

\* C15: a load_module that constructed an instance has recorded the class
\* under the name in available_modules, and the entry is there when the
\* initialize that follows has succeeded, returned false or raised
C15_AvailableOnConstruction ==
    /\ [][ (last'.op = "load" /\ last'.module # None) =>
              available_modules'[last'.module_name] = ClassName(last'.module_name) ]_vars
    /\ [](\A f \in inflight \cup {last} :
             (f.op \in {"load_all", "reload"} /\ f.module # None) =>
                 available_modules[f.module_name] = ClassName(f.module_name))
    /\ [](\A id \in InstIds :
             instances[id] # Collected =>
                 \E n \in Names : available_modules[n] = instances[id].class)

\* C15 witness: a reload_module constructed an instance whose initialize
\* raised, and the class is recorded
C15_Witness ==
    /\ last.op = "reload" /\ last.module # None /\ last.init = "raise"
    /\ available_modules[last.module_name] = ClassName(last.module_name)
    /\ ~Registered(last.module_name)

\* C16: every load_module that resolves the class records it in
\* available_modules, whatever happens after, a constructor that raises
\* included
C16_AvailableOnResolution ==
    [][ (last'.op = "load" /\ last'.outcome \in {"ok", "ctor_raises"}) =>
            available_modules'[last'.module_name] = ClassName(last'.module_name) ]_vars

\* C17: a newly constructed instance of a module class has the status
\* Initializing; when initialize returns, the status is Active if it returned
\* true and Error if it returned false; and over the initialize calls made on
\* an instance its status only goes from Initializing to Active, from
\* Initializing to Error and from Active to Error
C17_StatusTransitions ==
    [][ /\ last'.op = "construct" => instances'[last'.module].status = INITIALIZING
        /\ last'.op = "module_initialize" =>
              instances'[last'.module].status = IF last'.ret THEN ACTIVE ELSE ERROR
        /\ \A id \in InstIds :
              ( /\ instances[id] # Collected /\ instances'[id] # Collected
                /\ instances'[id].status # instances[id].status ) =>
                    << instances[id].status, instances'[id].status >> \in
                        { << INITIALIZING, ACTIVE >>, << INITIALIZING, ERROR >>,
                          << ACTIVE, ERROR >> } ]_vars

\* C18: no instance has the status Inactive, be it registered, removed by
\* unload_module or dropped by reload_module
C18_NeverInactive ==
    \A id \in InstIds :
        instances[id] # Collected => instances[id].status \in {INITIALIZING, ACTIVE, ERROR}

\* C18 witness: unload_module has removed an instance, which is still active
C18_Witness ==
    /\ last.op = "unload" /\ last.ret = TRUE /\ last.dropped # None
    /\ instances[last.dropped].status = ACTIVE
    /\ ~Registered(last.module_name)

\* C19: no call other than reload_module changes the instance registered
\* under a name into another instance
C19_ReplacedOnlyByReload ==
    [][ \A n \in Names :
          ( /\ DictHas(loaded_modules, n) /\ DictHas(loaded_modules', n)
            /\ DictGet(loaded_modules', n) # DictGet(loaded_modules, n) ) =>
                \E f \in Moved : f.op = "reload" /\ f.module_name = n ]_vars

\* C20: a registered name leaves loaded_modules only in an unload_module of
\* the name or in the first step of a reload_module of the name
C20_RemovedOnlyByUnloadOrReload ==
    [][ \A n \in Names :
          (DictHas(loaded_modules, n) /\ ~DictHas(loaded_modules', n)) =>
              \E f \in Moved :
                  /\ f.module_name = n
                  /\ f.dropped = DictGet(loaded_modules, n)
                  /\ \/ f.op = "unload"
                     \/ f.op = "reload" /\ f.init = "" ]_vars

\* C20 witness: an initialize_module of a registered name failed and the
\* name is registered as before
C20_Witness ==
    /\ last.op = "initialize" /\ last.ret = FALSE
    /\ DictHas(last.pre, last.module_name)
    /\ get_module(Loader, last.module_name) = DictGet(last.pre, last.module_name)

\* C22: discover_modules returns the names of the entries of the modules
\* directory that are directories, do not start with '_' and hold module.py,
\* each once and no other name; it returns the empty list, raising nothing,
\* when the directory does not exist; and it builds no instance and changes
\* neither loaded_modules nor available_modules
C22_Discover ==
    [][ last'.op = "discover" =>
          LET d == last'.discovered
              items == modules_dir.items
              Q == { j \in 1 .. Len(items) :
                       /\ items[j].is_dir
                       /\ items[j].name \notin {"_disabled", "__pycache__"}
                       /\ items[j].has_module_py }
          IN  /\ last'.pc = "done"
              /\ ~modules_dir.exists => d = << >>
              /\ modules_dir.exists =>
                    /\ SeqRange(d) = { items[j].name : j \in Q }
                    /\ Len(d) = Cardinality(Q)
              /\ loaded_modules' = loaded_modules
              /\ available_modules' = available_modules
              /\ instances' = instances ]_vars

\* C22 witness: of a reserved directory holding module.py and a module
\* directory, discover_modules returned the second only
C22_Witness ==
    /\ last.op = "discover" /\ last.pc = "done"
    /\ Len(modules_dir.items) = 2
    /\ modules_dir.items[1] = [name |-> "_disabled", is_dir |-> TRUE, has_module_py |-> TRUE]
    /\ modules_dir.items[2] = [name |-> "beta", is_dir |-> TRUE, has_module_py |-> TRUE]
    /\ last.discovered = << "beta" >>

\* the calls that took the step: their frames changed in more than the note
\* of the names other calls changed
Acted == { g \in Moved : \A f \in inflight : [f EXCEPT !.dirty = g.dirty] # g }

\* C21: load_all_modules processes the discovered names once each, in the
\* order of discovery: its results are those of a prefix of the discovered
\* names, it awaits initialize only on an instance its load_module built, it
\* registers a name only with the result True, at its return every
\* discovered name has a result; and, every awaited initialize returning or
\* raising in the end, every load_all_modules call returns
C21_LoadAllProgress ==
    /\ [](\A f \in inflight \cup {last} :
            f.op = "load_all" =>
              /\ Len(f.results) <= Len(f.discovered)
              /\ \A j \in 1 .. Len(f.results) : f.results[j].k = f.discovered[j]
              /\ f.pc = "await_initialize" =>
                    /\ Len(f.results) = f.i - 1
                    /\ f.module_name = f.discovered[f.i]
                    /\ f.module # None
                    /\ instances[f.module] # Collected
                    /\ instances[f.module].class = ClassName(f.module_name)
              /\ f.pc = "done" => Len(f.results) = Len(f.discovered)
              /\ f.pc \in {"await_initialize", "done"})
    /\ [][ \A g \in Acted :
             g.op = "load_all" =>
               \A n \in Names :
                   DictGet(loaded_modules', n) # DictGet(loaded_modules, n) =>
                       /\ DictHas(g.results, n)
                       /\ DictGet(g.results, n)
                       /\ DictGet(loaded_modules', n) # None ]_vars
    /\ ((\E f \in inflight : f.op = "load_all") ~> (last.op = "load_all" /\ last.pc = "done"))

\* a step of LoadAllStep can be taken exactly when a sweep is suspended
LoadAllStepEnabled == (ENABLED <<LoadAllStep>>_vars) <=> LoadAllSuspended

\* C21 witness: a sweep on the empty registry returned, alpha registered
\* and beta loaded with its initialize failed
C21_Witness ==
    /\ LoadAllReturned /\ last.pc = "done" /\ last.pre = EmptyDict /\ last.dirty = {}
    /\ budget = MaxCalls - 1
    /\ last.results = << [k |-> "alpha", v |-> TRUE], [k |-> "beta", v |-> FALSE] >>
    /\ Registered("alpha") /\ ~Registered("beta")
    /\ available_modules["beta"] = ClassName("beta")

\* C23: health_check of every module class returns a dict whose status is
\* healthy, unhealthy or error, whatever the request meets and whatever the
\* status of the instance, before its initialize too; initialize returns a
\* boolean, False when its probe raised; neither raises
C23_ProbesNeverRaise ==
    /\ last.op = "module_health" =>
          /\ last.pc = "done"
          /\ last.health \in {"healthy", "unhealthy", "error"}
    /\ last.op = "module_initialize" =>
          /\ last.pc = "done"
          /\ last.ret \in BOOLEAN
          /\ last.init = "raise" => ~last.ret
    /\ \A f \in inflight : f.pc # "failed"

\* C23 witness: health_check of a VirustotalModule that was never
\* initialized met an exception of the transport and returned error
C23_Witness ==
    /\ last.op = "module_health" /\ last.pc = "done"
    /\ instances[last.module].class = "VirustotalModule"
    /\ instances[last.module].status = INITIALIZING
    /\ ~instances[last.module].initialized
    /\ last.health = "error"

\* C24: a step of health_check leaves the status, the initialized flag and
\* the config of its instance as they were, and loaded_modules and
\* available_modules too: a module that is ACTIVE stays ACTIVE when its probe
\* reports unhealthy
C24_HealthCheckReadsOnly ==
    [][ \A g \in Acted :
          g.op = "module_health" =>
              /\ instances'[g.module] = instances[g.module]
              /\ loaded_modules' = loaded_modules
              /\ available_modules' = available_modules ]_vars

\* C24 witness: health_check of an initialized, ACTIVE module returned
\* unhealthy and the module is ACTIVE and initialized
C24_Witness ==
    /\ last.op = "module_health" /\ last.pc = "done"
    /\ last.health = "unhealthy"
    /\ instances[last.module].status = ACTIVE
    /\ instances[last.module].initialized

\* C25 as claimed: initialize of every module class returns True only if
\* the required settings are in the config and its probe reported healthy,
\* and leaves the status ERROR when it returns False
C25_InitializeProbes ==
    (last.op = "module_initialize" /\ last.pc = "done") =>
        /\ last.ret =>
              /\ ConfigComplete(instances[last.module].class, instances[last.module].config)
              /\ last.init = "healthy"
        /\ ~last.ret => instances[last.module].status = ERROR

\* C26: the listing endpoint never fails as a whole: it returns one entry per
\* module of the snapshot it took, in the snapshot's order, and total is the
\* number of entries; a module whose get_info raised has an entry with its
\* name, the error and status error, every other module an entry with its
\* name, its info and the status it had when its entry was built
C26_ListNeverFails ==
    last.op = "list" =>
        /\ last.pc = "done"
        /\ last.total = Len(last.module_list)
        /\ Len(last.module_list) = Len(last.pre)
        /\ Len(last.visited) = Len(last.pre)
        /\ \A j \in 1 .. Len(last.pre) :
              LET entry == last.module_list[j]
                  v == last.visited[j]
              IN  /\ DictGet(entry, "name") = last.pre[j].k
                  /\ v.module = last.pre[j].v
                  /\ IF v.probe = "raise"
                     THEN /\ DictKeys(entry) = {"name", "error", "status"}
                          /\ DictGet(entry, "status") = "error"
                     ELSE /\ DictKeys(entry) = {"name", "info", "status"}
                          /\ DictGet(entry, "status") = last.statuses[j]

\* C26 witness: get_info of the first module raised, the second module's
\* returned, and the listing returned two entries
C26_Witness ==
    /\ last.op = "list" /\ last.pc = "done" /\ last.total = 2
    /\ last.visited[1].probe = "raise" /\ last.visited[2].probe = "ok"
    /\ DictGet(last.module_list[1], "status") = "error"
    /\ DictGet(last.module_list[2], "status") = ACTIVE

\* C27 as claimed: the detail endpoint and the capabilities endpoint return
\* a result, or "not found" for a name that was not registered, whatever the
\* module's get_info, get_capabilities and health_check do
C27_QueriesNeverFail ==
    last.op \in {"detail", "capabilities"} =>
        \/ last.pc = "done"
        \/ last.pc = "failed" /\ last.outcome = "not_found" /\ last.module = None

\* C28: reload_module does not roll back. Called on a registered name, it
\* removes the entry before it loads; when the load fails it returns False
\* with the entry removed, and when the initialize fails or raises it
\* returns False and its last step leaves loaded_modules as it is: the
\* instance it removed is not put back
C28_ReloadDoesNotRollBack ==
    [][ \A g \in Acted :
          (g.op = "reload" /\ g.dropped # None) =>
              /\ budget' < budget =>
                    /\ loaded_modules' = DictDel(loaded_modules, g.module_name)
                    /\ g.pc = "done" <=> g.outcome # "ok"
              /\ (g.pc = "done" /\ (g.outcome # "ok" \/ g.init # "true")) =>
                    /\ ~g.ret
                    /\ budget' = budget => loaded_modules' = loaded_modules ]_vars

\* C28 witness: reload_module of a registered, ACTIVE module returned False
\* after the new instance's initialize failed; the name is not registered
\* and the old instance is still ACTIVE
C28_Witness ==
    /\ last.op = "reload" /\ last.pc = "done" /\ ~last.ret
    /\ last.dropped # None /\ last.outcome = "ok" /\ last.init = "false"
    /\ ~Registered(last.module_name)
    /\ instances[last.dropped].status = ACTIVE

\* C29: unload_module changes nothing but the entry of its name in
\* loaded_modules: the instance it removes keeps its status, its initialized
\* flag and its config, available_modules is unchanged, every other name's
\* entry is unchanged and no instance changes
C29_UnloadFrame ==
    [][ \A g \in Acted :
          g.op = "unload" =>
              /\ available_modules' = available_modules
              /\ \A n \in Names \ {g.module_name} :
                    DictGet(loaded_modules', n) = DictGet(loaded_modules, n)
              /\ g.dropped # None => instances'[g.dropped] = instances[g.dropped]
              /\ \A id \in InstIds : instances'[id] \in {instances[id], Collected} ]_vars

\* C29 witness: unload_module removed an ACTIVE, initialized module, which
\* is still ACTIVE and initialized, and its class is still available
C29_Witness ==
    /\ last.op = "unload" /\ last.ret /\ last.dropped # None
    /\ instances[last.dropped].status = ACTIVE
    /\ instances[last.dropped].initialized
    /\ ~Registered(last.module_name)
    /\ available_modules[last.module_name] = ClassName(last.module_name)

\* C30: the loader passes the config through: the instance load_module or
\* reload_module builds holds the config of the call, the empty config for
\* None; the instance load_all_modules builds for a name holds the entry of
\* configs under the name, the empty config when there is none; and the
\* config of an instance never changes
C30_ConfigPassedThrough ==
    [][ /\ \A g \in Acted :
              /\ (g.op \in {"load", "reload"} /\ budget' < budget /\ g.module # None) =>
                    instances'[g.module].config =
                        (IF g.config = NoConfig THEN EmptyConfig ELSE g.config)
              /\ (g.op = "load_all" /\ g.pc = "await_initialize") =>
                    instances'[g.module].config =
                        (IF g.module_name \in DOMAIN g.configs
                         THEN g.configs[g.module_name] ELSE EmptyConfig)
        /\ \A id \in InstIds :
              (instances[id] # Collected /\ instances'[id] # Collected) =>
                  instances'[id].config = instances[id].config ]_vars

\* C30 witness: a sweep registered alpha with its entry of configs and beta,
\* which has no entry, with the empty config
C30_Witness ==
    /\ LoadAllReturned /\ last.pc = "done"
    /\ "beta" \notin DOMAIN last.configs
    /\ Registered("alpha") /\ Registered("beta")
    /\ instances[get_module(Loader, "alpha")].config = last.configs["alpha"]
    /\ instances[get_module(Loader, "beta")].config = EmptyConfig

\* C31: available_modules covers loaded_modules: every name registered in
\* loaded_modules has a class in available_modules, and that class is the
\* class of the instance registered under the name
C31_AvailableCoversLoaded ==
    \A n \in DictKeys(loaded_modules) :
        /\ available_modules[n] # NoClass
        /\ available_modules[n] = instances[DictGet(loaded_modules, n)].class

\* C31 witness: alpha was registered, removed by a reload_module whose
\* initialize failed, and beta is registered; both classes are available
C31_Witness ==
    /\ last.op = "reload" /\ last.module_name = "alpha" /\ ~last.ret
    /\ last.dropped # None /\ last.outcome = "ok"
    /\ ~Registered("alpha") /\ Registered("beta")
    /\ available_modules["alpha"] = ClassName("alpha")
    /\ available_modules["beta"] = instances[get_module(Loader, "beta")].class

\* C33: every instance registered in loaded_modules is ACTIVE and
\* initialized, and no instance is registered under two names
C33_RegisteredAreActive ==
    /\ \A n \in DictKeys(loaded_modules) :
          LET inst == instances[DictGet(loaded_modules, n)]
          IN  inst # Collected /\ inst.status = ACTIVE /\ inst.initialized
    /\ \A n, m \in DictKeys(loaded_modules) :
          n # m => DictGet(loaded_modules, n) # DictGet(loaded_modules, m)

\* C33 witness: two sweeps ran at once and both names are registered, each
\* with an ACTIVE instance of its own
C33_Witness ==
    /\ LoadAllReturned /\ last.dirty # {}
    /\ Registered("alpha") /\ Registered("beta")
    /\ get_module(Loader, "alpha") # get_module(Loader, "beta")
    /\ instances[get_module(Loader, "alpha")].status = ACTIVE
    /\ instances[get_module(Loader, "beta")].status = ACTIVE

\* C32 as claimed: for every instance, is_initialized() is true iff the
\* status of the instance is ACTIVE, after a repeated initialize too
C32_InitializedIffActive ==
    \A id \in InstIds :
        instances[id] # Collected =>
            (instances[id].initialized <=> instances[id].status = ACTIVE)

\* C35: in initialize of every module class the settings are checked before
\* the probe: with api_key missing, or api_url missing for ThehiveModule, or
\* organization_id missing for LimacharlieModule, initialize ends in the
\* step it is called in, before any await, with False and status ERROR, no
\* probe made, no client built and the initialized flag not set
C35_ValidationBeforeProbe ==
    [][ \A g \in Acted :
          ( /\ g.op = "module_initialize"
            /\ \/ instances[g.module].config = EmptyConfig
               \/ /\ instances[g.module].config = KeyOnly
                  /\ instances[g.module].class \in {"ThehiveModule", "LimacharlieModule"} ) =>
              /\ budget' < budget
              /\ g.pc = "done" /\ ~g.ret /\ g.init = ""
              /\ instances'[g.module].status = ERROR
              /\ ~instances'[g.module].initialized
              /\ ~instances'[g.module].api ]_vars

\* C35 witness: initialize of a ThehiveModule with an api_key and no api_url
\* returned False without a probe, status ERROR
C35_Witness ==
    /\ last.op = "module_initialize" /\ last.pc = "done" /\ ~last.ret /\ last.init = ""
    /\ instances[last.module].class = "ThehiveModule"
    /\ instances[last.module].config = KeyOnly
    /\ instances[last.module].status = ERROR
    /\ ~instances[last.module].initialized

\* C34: the top-level fields of the health endpoint's response do not depend
\* on the health of the modules: whatever the probes returned or raised, and
\* with no module at all, status is "healthy", modules_loaded is the size of
\* the snapshot taken when the call was made, and modules has that many keys
C34_HealthTopLevel ==
    HealthReturned =>
        /\ last.pc = "done"
        /\ last.response.status = "healthy"
        /\ last.response.modules_loaded = Len(last.pre)
        /\ Cardinality(DictKeys(last.response.modules)) = Len(last.pre)
        /\ Len(last.response.modules) = Len(last.pre)

\* C34 witness: one module's health_check raised and the other reported
\* unhealthy; the response says healthy and counts the two modules of the
\* snapshot
C34_Witness ==
    /\ HealthReturned /\ last.pc = "done" /\ Len(last.pre) = 2
    /\ last.visited[1].probe = "raise" /\ last.visited[2].probe = "unhealthy"
    /\ last.response.status = "healthy"
    /\ last.response.modules_loaded = 2

\* C34 witness, second case: with no module loaded the response says
\* healthy with modules_loaded 0
C34_WitnessEmpty ==
    /\ HealthReturned /\ last.pc = "done" /\ Len(last.pre) = 0
    /\ last.response.status = "healthy" /\ last.response.modules_loaded = 0

\* C36: get_result sends at most 10 requests when wait_for_completion is
\* true and exactly 1 otherwise; it sleeps and retries only after a 404,
\* with wait_for_completion true and attempts left; it returns the JSON on
\* the first 200 and None on any other status, on a 404 at the last attempt
\* and on any exception; it never raises and is never left without a next
\* step before it returns
C36_GetResultBounded ==
    \A f \in inflight \cup {last} :
        f.op = "get_result" =>
            /\ f.pc \in {"await_request", "await_sleep", "done"}
            /\ f.requests = f.i + 1
            /\ f.requests >= 1
            /\ f.requests <= (IF f.wait_for_completion THEN 10 ELSE 1)
            /\ f.pc = "await_sleep" =>
                    f.outcome = "404" /\ f.wait_for_completion /\ f.requests < 10
            /\ f.pc = "done" =>
                    /\ f.result \in {"json", "None"}
                    /\ f.result = "json" <=> f.outcome = "200"
                    /\ (f.outcome = "404" /\ f.wait_for_completion) => f.requests = 10

\* C36 witness: get_result with wait_for_completion met 404 ten times and
\* returned None after its tenth request
C36_Witness ==
    /\ last.op = "get_result" /\ last.pc = "done" /\ last.wait_for_completion
    /\ last.outcome = "404" /\ last.requests = 10 /\ last.result = "None"

====
